---------------------------- MODULE Spec2Model ----------------------------
(***************************************************************************)
(* Model of src/instrum/float_lib.py: an autonomous float (a cylinder     *)
(* with an optional piston) time stepped through a water column.           *)
(*                                                                         *)
(* Numbers are fixed point integers.  One length unit is 2.5 mm, one tick  *)
(* of time is .05 s (Sec ticks make a second), velocities are length units *)
(* per second and accelerations length units per second squared.  Volumes  *)
(* are counted in pi * (length unit)^3, so that pi*a**2*L is a*a*L; a mass *)
(* unit is the mass of one volume unit of fresh water (1000 kg/m^3), and   *)
(* densities are in .1 kg/m^3.  Angles are TwoPi-ths of a revolution, so   *)
(* that a rotation rate is in tenths of a revolution per minute.           *)
(* Pressures are in dbar, temperatures in degC, compressibilities in parts *)
(* per million.  A real quotient is rounded to the nearest integer (Quot).   *)
(***************************************************************************)
EXTENDS Integers, Sequences, FiniteSets, TLC

VARIABLES
    pc,       \* where the script that drives the float is: it makes the float
              \* ("new"), gives it a piston ("ready", or "exit" when the
              \* constructor exits), then either drives the piston directly
              \* ("bench") or time steps the float ("loop", then "done"), and
              \* ends with one query of the float ("end")
    flt,      \* the float's parameters (a, L, m, gamma, alpha, temp0, V)
    attrs,    \* which of the optional attributes z, w, v, Lv the float has
    z,        \* self.z
    w,        \* self.w
    v,        \* self.v
    piston,   \* self.piston (NoPiston when the float has none)
    eta,      \* waterp.eta
    log,      \* self.log (NoLog when the float has none)
    run,      \* the locals of time_step: its arguments, t, _f (f), and of the
              \* last iteration self.z as line 266 left it (zfree) and
              \* whether the branch of line 236 was taken (applied)
    op,       \* the operation that made the last step
    arg,      \* the arguments it was called with
    ret,      \* what it returned
    ncalls    \* direct calls made on the piston

vars == <<pc, flt, attrs, z, w, v, piston, eta, log, run, op, arg, ret, ncalls>>

-----------------------------------------------------------------------------
(* Bounds of the model *)

\* direct piston.update / update_vol calls made on a piston
MaxCalls == 3
\* the longest horizon T of a run, in seconds
MaxT == 3
\* the horizon T of the runs that are logged every minute, in seconds
LongT == 125

-----------------------------------------------------------------------------
(* Arithmetic *)

Abs(x) == IF x < 0 THEN -x ELSE x

Sign(x) == IF x > 0 THEN 1 ELSE IF x < 0 THEN -1 ELSE 0

Min(x, y) == IF x <= y THEN x ELSE y

Max(x, y) == IF x >= y THEN x ELSE y

\* x / y, rounded to the nearest integer (a tie away from zero); the operands
\* are taken as values a and b, each worked out once
Quot(x, y) ==
    CHOOSE n \in {Sign(a) * Sign(b)
                    * (IF (Abs(a) % Abs(b)) >= Abs(b) - (Abs(a) % Abs(b))
                       THEN (Abs(a) \div Abs(b)) + 1 ELSE Abs(a) \div Abs(b)) :
                  a \in {x}, b \in {y}} : TRUE

\* np.rint(x / y) for y > 0: the nearest integer, a tie to the even one
Rint(x, y) ==
    LET q == x \div y
        r == x % y
    IN  IF 2 * r < y THEN q
        ELSE IF 2 * r > y THEN q + 1
        ELSE IF q % 2 = 0 THEN q ELSE q + 1

\* g = 9.81 m/s^2, in length units (2.5 mm) per second squared
g == 3924

\* one second, in ticks of .05 s (the offset at which z_target is sampled)
Sec == 20

\* 2 * pi, in angle units
TwoPi == 600

\* None, and a value that is not None
None == <<>>

Some(x) == <<x>>

Val(o) == o[1]

-----------------------------------------------------------------------------
(* piston *)

NoPiston == [k \in {} |-> 0]

\* the default parameters of piston.__init__
PistonDefaults ==
    [a |-> 10, phi |-> 0, d |-> 0, vol |-> 0, omega |-> 0, lead |-> 7,
     phi_min |-> 0, d_min |-> 0, d_max |-> 28, vol_min |-> 0,
     omega_max |-> 1240, omega_min |-> 124]

\* params.update(kwargs)
DictUpdate(params, kwargs) ==
    [k \in (DOMAIN params) \cup (DOMAIN kwargs) |->
        IF k \in DOMAIN kwargs THEN kwargs[k] ELSE params[k]]

\* setattr(self, key, val)
SetAttr(self, key, val) ==
    [k \in (DOMAIN self) \cup {key} |-> IF k = key THEN val ELSE self[k]]

omega2dvdt(p, omega) == Quot(omega * p.lead * p.a * p.a, TwoPi)

dvdt2omega(p, dvdt) == Quot(dvdt * TwoPi, p.lead * p.a * p.a)

phi2d(p, phi) == p.d_min + Quot((phi - p.phi_min) * p.lead, TwoPi)

d2phi(p, d) == p.phi_min + Quot((d - p.d_min) * TwoPi, p.lead)

d2vol(p, d) == p.vol_min + (d - p.d_min) * p.a * p.a

vol2d(p, vol) == p.d_min + Quot(vol - p.vol_min, p.a * p.a)

phi2vol(p, phi) == d2vol(p, phi2d(p, phi))

vol2phi(p, vol) == d2phi(p, vol2d(p, vol))

\* _checkbounds, clamping from below only
checkbounds_min_only(p) ==
    [p EXCEPT !.phi = Max(p.phi, p.phi_min)]

\* piston._checkbounds
checkbounds(p) ==
    [p EXCEPT !.phi = Min(Max(p.phi, p.phi_min), p.phi_max)]

\* piston._bcast_phi
bcast_phi(p) ==
    [p EXCEPT !.d = phi2d(p, p.phi), !.vol = phi2vol(p, p.phi)]

\* piston.update_dvdt
update_dvdt(p) == SetAttr(p, "dvdt", omega2dvdt(p, p.omega))

\* piston.update_omega
update_omega(p, omega) ==
    IF Abs(omega) < p.omega_min
    THEN [p EXCEPT !.omega = 0]
    ELSE [p EXCEPT !.omega = Sign(omega) * Min(Abs(omega), p.omega_max)]

\* piston.update_phi, each call of it worked out once
update_phi(p, dt) ==
    CHOOSE q \in {bcast_phi(p2) :
                    p2 \in {checkbounds(p1) :
                              p1 \in {[p EXCEPT !.phi = p.phi + Quot(p.omega * dt, Sec)]}}} :
        TRUE

\* piston.update_vol, each call of it worked out once
update_vol(p, vol) ==
    CHOOSE q \in {bcast_phi(p2) :
                    p2 \in {checkbounds(p1) :
                              p1 \in {[p EXCEPT !.phi = vol2phi(p, vol)]}}} : TRUE

\* piston.update with update_dvdt called before update_omega
update_dvdt_first(p, dt, dvdt) ==
    CHOOSE q \in {update_phi(p2, dt) :
                    p2 \in {update_omega(p1, dvdt2omega(p, dvdt)) :
                              p1 \in {update_dvdt(p)}}} : TRUE

\* piston.update, each call of it worked out once
update(p, dt, dvdt) ==
    CHOOSE q \in {update_phi(p2, dt) :
                    p2 \in {update_dvdt(p1) :
                              p1 \in {update_omega(p, dvdt2omega(p, dvdt))}}} : TRUE

\* piston.__init__ with d_max looked up in params, where the default is
piston_init_params(kwargs) ==
    LET p0 == DictUpdate(PistonDefaults, kwargs)
        p1 == IF "vol_max" \in DOMAIN kwargs
              THEN [p0 EXCEPT !.d_max = vol2d(p0, p0.vol_max)]
              ELSE SetAttr(p0, "vol_max", d2vol(p0, p0.d_max))
    IN  [exit |-> FALSE,
         self |-> update_dvdt(SetAttr(p1, "phi_max", d2phi(p1, p1.d_max)))]

\* piston.__init__: exit is whether it ended in sys.exit(), self the object as
\* the constructor left it
piston_init(kwargs) ==
    LET p0 == DictUpdate(PistonDefaults, kwargs)
    IN  IF "vol_max" \in DOMAIN kwargs
        THEN LET p1 == [p0 EXCEPT !.d_max = vol2d(p0, p0.vol_max)]
             IN  [exit |-> FALSE,
                  self |-> update_dvdt(SetAttr(p1, "phi_max", d2phi(p1, p1.d_max)))]
        ELSE IF "d_max" \in DOMAIN kwargs
        THEN LET p1 == SetAttr(p0, "vol_max", d2vol(p0, p0.d_max))
             IN  [exit |-> FALSE,
                  self |-> update_dvdt(SetAttr(p1, "phi_max", d2phi(p1, p1.d_max)))]
        ELSE [exit |-> TRUE, self |-> p0]

-----------------------------------------------------------------------------
(* waterp: a water column.  The profile is the input of the model: three   *)
(* levels, 10 m, 5 m and the surface, with their pressure, absolute        *)
(* salinity and conservative temperature.                                  *)

wp_z == <<-4000, -2000, 0>>

wp_p == <<10, 5, 0>>

wp_SA == <<36, 35, 34>>

wp_CT == <<8, 14, 20>>

\* interp: interp1d(z_in, v_in, kind='linear', fill_value='extrapolate')(z_out)
interp(z_in, v_in, z_out) ==
    LET below == {i \in 1..(Len(z_in) - 1) : z_in[i] <= z_out}
        i == IF below = {} THEN 1
             ELSE CHOOSE k \in below : \A j \in below : j <= k
    IN  v_in[i] + Quot((v_in[i + 1] - v_in[i]) * (z_out - z_in[i]),
                       z_in[i + 1] - z_in[i])

\* gsw.conversions.t_from_CT, the equation of state's oracle: the in situ
\* temperature is the conservative one, less the adiabatic cooling
t_from_CT(SA, CT, p) == CT - Quot(p, 10)

\* gsw.density.rho, the equation of state's oracle, made linear
gsw_rho(SA, CT, p) == 10000 + 8 * SA - 2 * CT + Quot(45 * p, 100)

\* waterp.get_p
get_p(zq) == interp(wp_z, wp_p, zq)

\* waterp.get_temp
get_temp(e, zq) ==
    t_from_CT(interp(wp_z, wp_SA, zq - e), interp(wp_z, wp_CT, zq - e), get_p(zq))

\* waterp.get_rho
get_rho(e, zq) ==
    gsw_rho(interp(wp_z, wp_SA, zq - e), interp(wp_z, wp_CT, zq - e), get_p(zq))

-----------------------------------------------------------------------------
(* autonomous_float *)

\* the default parameters of autonomous_float.__init__
FloatDefaults ==
    [a |-> 20, L |-> 160, gamma |-> 2, alpha |-> 70, temp0 |-> 15,
     m |-> 20 * 20 * 160]

\* autonomous_float.__init__
float_init(kwargs) ==
    LET f == DictUpdate(FloatDefaults, kwargs)
    IN  SetAttr(f, "V", f.a * f.a * f.L)

\* self.rho(p=p, temp=temp, v=v): mass over volume
rho_pt(f, p, temp, vv) ==
    Quot(f.m * 10000,
         f.V + Quot(f.V * (- f.gamma * p + f.alpha * (temp - f.temp0)), 1000000)
             + vv)

\* self.rho(v=v, z=z, waterp=waterp): the pressure and the temperature are
\* looked up at self.z
rho_z(f, e, selfz, vv, zq) ==
    rho_pt(f, get_p(selfz), get_temp(e, selfz), vv)

\* self.volume(z=z, waterp=waterp)
volume_z(f, e, selfz, vv, zq) == Quot(f.m * 10000, rho_z(f, e, selfz, vv, zq))

\* self._f(z, waterp, Lv, v=v, w=w), v and w resolved
f_force(f, e, zq, Lv, vv, ww) ==
    LET p    == get_p(zq)
        rhow == get_rho(e, zq)
        rhof == rho_pt(f, p, get_temp(e, zq), vv)
    IN  - f.m * g + Quot(f.m * rhow, rhof) * g - Quot(f.m, Lv) * Abs(ww) * ww

\* self._df(z, waterp, Lv): the three gradients
df_force(f, e, zq, Lv, vv, ww) ==
    <<Quot(f_force(f, e, zq + 20, Lv, vv, ww) - f_force(f, e, zq - 20, Lv, vv, ww), 40),
      Quot(f_force(f, e, zq, Lv, vv, ww + 2) - f_force(f, e, zq, Lv, vv, ww - 2), 4),
      Quot(f_force(f, e, zq, Lv, vv + 1019, ww) - f_force(f, e, zq, Lv, vv - 1019, ww),
           2038)>>

\* self._control: the sign of d2z_t - d2z + 2*(dz_t-dz)/tau_ctrl + (z_t-z)/tau_ctrl**2,
\* taken of its product by tau_ctrl**2 > 0
control(zz, dz, d2z, z_t, dz_t, d2z_t, tau_ctrl) ==
    Sign(d2z_t * tau_ctrl * tau_ctrl - d2z * tau_ctrl * tau_ctrl
         + 2 * (dz_t - dz) * tau_ctrl + (z_t - zz))

\* t_modulo_dt with the multiple below t in place of the nearest one
t_modulo_dt_floor(t, dt, dt_step) ==
    4 * Abs(t - (t \div dt) * dt) < dt_step

\* t_modulo_dt, dt > 0: |t/dt - rint(t/dt)| < 0.25*dt_step/dt
t_modulo_dt(t, dt, dt_step) ==
    4 * Abs(t - Rint(t, dt) * dt) < dt_step

\* a function of time the caller supplies (z_target, eta): t -> c + r * t,
\* t in ticks and r per second
At(fn, t) == fn.c + Quot(fn.r * t, Sec)

NoLog == [k \in {} |-> 0]

\* logger.__init__
logger(var) == [k \in var |-> <<>>]

\* logger.store, the last sample kept in place of the series
store_overwrite(lg, kwargs) ==
    [k \in DOMAIN lg |-> IF k \in DOMAIN kwargs THEN <<kwargs[k]>> ELSE lg[k]]

\* logger.store
store(lg, kwargs) ==
    [k \in DOMAIN lg |-> IF k \in DOMAIN kwargs THEN Append(lg[k], kwargs[k])
                          ELSE lg[k]]

NoRun == [k \in {} |-> 0]

-----------------------------------------------------------------------------
(* The inputs of the model *)

FloatKwargs ==
    {[m |-> 65500], [m |-> 67000, gamma |-> 200, alpha |-> 700]}

\* the keyword arguments of init_piston: of the floats that are time stepped,
\* and of the pistons that are driven directly
PistonKwargs ==
    {[omega_min |-> 124],
     [d_max |-> 28],
     [vol_max |-> 2000],
     [d_max |-> 28, d_min |-> 7, vol_min |-> 100]}

BenchKwargs ==
    PistonKwargs \cup
    {[lead |-> 7],
     [d_max |-> 28, vol_max |-> 1400],
     [d_max |-> 28, phi |-> 600],
     [d_max |-> 28, omega_min |-> 2000],
     [d_max |-> -7]}

\* the arguments of the direct piston.update calls
UpdateDvdt == {-2000, -100, 0, 100, 700}

UpdateVol == {-500, 1200, 5000}

ZTargets == {[c |-> -400, r |-> 0], [c |-> 0, r |-> -100]}

\* the arguments of a time_step call
RunParams ==
    {[T |-> k * Sec, dt_step |-> dt, dt_store |-> ls[2], z |-> st[1], w |-> st[2],
      v |-> st[3], t0 |-> ls[3], Lv |-> None, usepiston |-> c.usepiston,
      z_target |-> c.z_target, tau_ctrl |-> 60, d3y_ctrl |-> c.d3y_ctrl,
      dz_nochattering |-> c.dzn, eta |-> st[4], log |-> ls[1]] :
        k \in 1..MaxT, dt \in {Sec, Sec \div 2},
        ls \in {<<FALSE, None, 0>>, <<TRUE, None, 0>>, <<TRUE, Some(Sec), 0>>,
                <<TRUE, Some(Sec), 4>>},
        st \in {<<None, None, None, [c |-> 0, r |-> 0]>>,
                <<Some(-400), None, Some(1000), [c |-> 0, r |-> 0]>>,
                <<Some(-400), Some(100), None, [c |-> 100, r |-> 40]>>,
                <<None, None, Some(1000), [c |-> 100, r |-> 40]>>},
        c \in {[usepiston |-> FALSE, z_target |-> None, d3y_ctrl |-> None, dzn |-> 0]}
              \cup {[usepiston |-> TRUE, z_target |-> zt, d3y_ctrl |-> Some(100),
                     dzn |-> dzn] : zt \in ZTargets, dzn \in {0, 300}}}

\* the arguments of the time_step calls that log a free float over minutes
CadenceParams ==
    {[T |-> LongT * Sec, dt_step |-> d[1], dt_store |-> Some(d[2]), z |-> None,
      w |-> None, v |-> None, t0 |-> t0, Lv |-> None, usepiston |-> FALSE,
      z_target |-> None, tau_ctrl |-> 60, d3y_ctrl |-> None, dz_nochattering |-> 0,
      eta |-> [c |-> 0, r |-> 0], log |-> TRUE] :
        d \in {<<Sec, 60 * Sec>>, <<Sec \div 2, 7 * Sec>>, <<Sec, 6>>},
        t0 \in {-4, 0, 4, 5, 16}}

-----------------------------------------------------------------------------
(* The state of the float *)

Has(name) == name \in attrs

\* v of self.rho when v is None: self.v if the float has one
ResolveV(vopt) == IF vopt # None THEN Val(vopt) ELSE IF Has("v") THEN v ELSE 0

Init ==
    /\ pc = "new"
    /\ flt \in {float_init(k) : k \in FloatKwargs}
    /\ attrs = {}
    /\ z = 0
    /\ w = 0
    /\ v = 0
    /\ piston = NoPiston
    /\ eta = 0
    /\ log = NoLog
    /\ run = NoRun
    /\ op = "__init__"
    /\ arg = None
    /\ ret = None
    /\ ncalls = 0

Idle == pc \in {"new", "ready"}

\* autonomous_float.init_piston
init_piston(kwargs) ==
    /\ pc = "new"
    /\ LET r == piston_init(kwargs)
       IN  /\ ret' = r
           /\ IF r.exit
              THEN pc' = "exit" /\ piston' = piston
              ELSE pc' = "ready" /\ piston' = r.self
    /\ op' = "init_piston"
    /\ arg' = kwargs
    /\ UNCHANGED <<flt, attrs, z, w, v, eta, log, run, ncalls>>

\* a call of self.piston.update(dt, dvdt)
piston_update(dt, dvdt) ==
    /\ pc \in {"ready", "bench"}
    /\ piston # NoPiston
    /\ ncalls < MaxCalls
    /\ piston' = update(piston, dt, dvdt)
    /\ pc' = "bench"
    /\ op' = "update"
    /\ arg' = <<dt, dvdt>>
    /\ ret' = None
    /\ ncalls' = ncalls + 1
    /\ UNCHANGED <<flt, attrs, z, w, v, eta, log, run>>

\* a call of self.piston.update_vol(vol)
piston_update_vol(vol) ==
    /\ pc \in {"ready", "bench"}
    /\ piston # NoPiston
    /\ ncalls < MaxCalls
    /\ piston' = update_vol(piston, vol)
    /\ pc' = "bench"
    /\ op' = "update_vol"
    /\ arg' = <<vol>>
    /\ ret' = None
    /\ ncalls' = ncalls + 1
    /\ UNCHANGED <<flt, attrs, z, w, v, eta, log, run>>

\* autonomous_float.time_step, up to its loop
time_step(P) ==
    /\ Idle
    /\ P.usepiston => piston # NoPiston
    /\ LET z0 == IF P.z # None THEN Val(P.z) ELSE IF Has("z") THEN z ELSE 0
           w0 == IF P.w # None THEN Val(P.w) ELSE IF Has("w") THEN w ELSE 0
           p1 == IF P.usepiston /\ P.v # None THEN update_vol(piston, Val(P.v))
                 ELSE piston
           Lv == IF P.Lv # None THEN Val(P.Lv) ELSE flt.L
       IN  /\ z' = z0
           /\ w' = w0
           /\ piston' = p1
           /\ v' = IF P.usepiston THEN p1.vol
                   ELSE IF P.v = None THEN (IF Has("v") THEN v ELSE 0)
                   ELSE Val(P.v)
           /\ flt' = SetAttr(SetAttr(flt, "dz_nochattering", P.dz_nochattering),
                             "Lv", Lv)
           /\ log' = IF P.log THEN logger({"t", "z", "w", "v", "dwdt"}) ELSE log
           /\ run' = [t |-> P.t0, t0 |-> P.t0, T |-> P.T, dt_step |-> P.dt_step,
                      dt_store |-> P.dt_store, z |-> z0, Lv |-> Lv,
                      usepiston |-> P.usepiston, z_target |-> P.z_target,
                      tau_ctrl |-> P.tau_ctrl, d3y_ctrl |-> P.d3y_ctrl,
                      dz_nochattering |-> P.dz_nochattering, eta |-> P.eta,
                      log |-> P.log, f |-> 0, zfree |-> z0, applied |-> FALSE]
    /\ attrs' = attrs \cup {"z", "w", "v"}
    /\ pc' = "loop"
    /\ op' = "time_step"
    /\ arg' = None
    /\ ret' = None
    /\ UNCHANGED <<eta, ncalls>>

\* whether control is applied, the deadband being open
control_applied_ge(zz, z_t, dz_nochattering) == Abs(zz - z_t) >= dz_nochattering

\* whether this iteration's control is applied: line 236
control_applied(zz, z_t, dz_nochattering) == Abs(zz - z_t) > dz_nochattering

\* the volume rate u the controller asks of the piston: lines 239-253.  df1/m,
\* df2/m, df3/m are below the resolution of the model: the gradients are kept
\* as their numerators over m, and d3y is brought over m with them.
control_u(f, e, selfz, selfw, selfv, F, t, r) ==
    LET z_t   == At(r.z_target, t)
        dz_t  == Quot((At(r.z_target, t + 1) - At(r.z_target, t - 1)) * Sec, 2)
        d2z_t == (At(r.z_target, t + 1) - 2 * At(r.z_target, t)
                   + At(r.z_target, t - 1)) * Sec * Sec
        x2    == selfw
        f2    == Quot(F, f.m)
        f3    == (volume_z(f, e, selfz, selfv, selfz + 200)
                   - volume_z(f, e, selfz, selfv, selfz - 200)) * x2
        df    == df_force(f, e, r.z, r.Lv, selfv, selfw)
        d3y   == Val(r.d3y_ctrl)
                   * control(selfz, selfw, f2, z_t, dz_t, d2z_t, r.tau_ctrl)
        u     == df[1] * x2 + df[2] * f2 + df[3] * f3 - f.m * d3y
    IN  - Quot(u, df[3])

\* the Euler step without line 267
step_z_unclamped(zz, ww, dt_step) == zz + Quot(dt_step * ww, Sec)

\* the depth after an Euler step: lines 266-267
step_z(zz, ww, dt_step) == Min(zz + Quot(dt_step * ww, Sec), 0)

\* the velocity stepped by the acceleration alone
step_w_no_dt(ww, F, m, dt_step) == ww + Quot(F, m)

\* the velocity after an Euler step: line 268
step_w(ww, F, m, dt_step) == ww + Quot(dt_step * F, Sec * m)

\* the loop going on at t = t0 + T as well
loop_guard_le(t, t0, T) == t <= t0 + T

\* whether the loop of time_step goes on: line 227
loop_guard(t, t0, T) == t < t0 + T

\* one iteration of the loop of time_step; t, e1, F, ctl, u, p1, v1, due are
\* the values the iteration works out once
time_step_iter ==
    /\ pc = "loop"
    /\ loop_guard(run.t, run.t0, run.T)
    /\ \E t \in {run.t} :
       \E e1 \in {At(run.eta, t)} :
       \E F \in {f_force(flt, e1, z, run.Lv, v, w)} :
       \E ctl \in {/\ run.usepiston
                   /\ control_applied(z, At(run.z_target, t), run.dz_nochattering)} :
       \E u \in {IF ctl THEN control_u(flt, e1, z, w, v, F, t, run) ELSE 0} :
       \E p1 \in {IF ctl THEN update(piston, run.dt_step, u) ELSE piston} :
       \E v1 \in {IF ctl THEN p1.vol ELSE v} :
       \E due \in {/\ run.log
                   /\ run.dt_store # None
                   /\ t_modulo_dt(t, Val(run.dt_store), run.dt_step)} :
           /\ eta' = e1
           /\ piston' = p1
           /\ v' = v1
           /\ log' = IF due
                     THEN store(log, [t |-> t, z |-> z, w |-> w, v |-> v1,
                                      dwdt |-> Quot(F, flt.m)])
                     ELSE log
           /\ z' = step_z(z, w, run.dt_step)
           /\ w' = step_w(w, F, flt.m, run.dt_step)
           /\ run' = [run EXCEPT !.t = t + run.dt_step, !.f = F,
                                 !.zfree = z + Quot(run.dt_step * w, Sec),
                                 !.applied = ctl]
    /\ op' = "iter"
    /\ arg' = None
    /\ ret' = None
    /\ UNCHANGED <<pc, flt, attrs, ncalls>>

\* the loop of time_step ends and time_step returns
time_step_return ==
    /\ pc = "loop"
    /\ ~ loop_guard(run.t, run.t0, run.T)
    /\ pc' = "done"
    /\ op' = "return"
    /\ arg' = None
    /\ ret' = None
    /\ UNCHANGED <<flt, attrs, z, w, v, piston, eta, log, run, ncalls>>

\* the largest k with k * k <= n: np.sqrt
Sqrt(n) == CHOOSE k \in 0..n : k * k <= n /\ n < (k + 1) * (k + 1)

\* a call of self.rho(z=zq, waterp=waterp)
call_rho(zq) ==
    /\ pc = "done"
    /\ ret' = Some(rho_z(flt, eta, z, ResolveV(None), zq))
    /\ op' = "rho"
    /\ arg' = <<zq>>
    /\ pc' = "end"
    /\ UNCHANGED <<flt, attrs, z, w, v, piston, eta, log, run, ncalls>>

\* a call of self._f(zq, waterp, Lv, v=vopt, w=wopt)
call_f(zq, vopt, wopt) ==
    /\ pc = "done"
    /\ ret' = Some(f_force(flt, eta, zq, flt.Lv, ResolveV(vopt),
                           IF wopt = None THEN w ELSE Val(wopt)))
    /\ op' = "_f"
    /\ arg' = <<zq, vopt, wopt>>
    /\ pc' = "end"
    /\ UNCHANGED <<flt, attrs, z, w, v, piston, eta, log, run, ncalls>>

\* a call of self._df(zq, waterp, Lv)
call_df(zq) ==
    /\ pc = "done"
    /\ ret' = df_force(flt, eta, zq, flt.Lv, v, w)
    /\ op' = "_df"
    /\ arg' = <<zq>>
    /\ pc' = "end"
    /\ UNCHANGED <<flt, attrs, z, w, v, piston, eta, log, run, ncalls>>

\* compute_bounds with the commented out self.w=0. of line 141
compute_bounds_resets_w(zmin, zmax) ==
    /\ pc \in {"ready", "done"}
    /\ w' = 0
    /\ ret' = None
    /\ op' = "compute_bounds"
    /\ arg' = <<zmin, zmax>>
    /\ pc' = "end"
    /\ UNCHANGED <<flt, attrs, z, v, piston, eta, log, run, ncalls>>

\* autonomous_float.compute_bounds(waterp, zmin, zmax)
compute_bounds(zmin, zmax) ==
    /\ pc \in {"ready", "done"}
    /\ LET Lv   == IF "Lv" \in DOMAIN flt THEN flt.Lv ELSE flt.L
           fmax == f_force(flt, eta, zmax, Lv,
                           IF piston # NoPiston THEN piston.vol_max
                           ELSE ResolveV(None), 0)
           fmin == f_force(flt, eta, zmin, Lv,
                           IF piston # NoPiston THEN piston.vol_min
                           ELSE ResolveV(None), 0)
           afmax == Max(Abs(fmax), Abs(fmin))
       IN  ret' = <<fmax, fmin, afmax, Sqrt(Quot(afmax * Lv, flt.m))>>
    /\ op' = "compute_bounds"
    /\ arg' = <<zmin, zmax>>
    /\ pc' = "end"
    /\ UNCHANGED <<flt, attrs, z, w, v, piston, eta, log, run, ncalls>>

Next ==
    \/ pc = "new" /\ \E k \in PistonKwargs : init_piston(k)
    \/ Idle /\ \E P \in RunParams : time_step(P)
    \/ time_step_iter
    \/ time_step_return
    \/ \E zq \in {z - 200, -4000} : call_rho(zq)
    \/ call_f(z, None, None)
    \/ call_f(z - 400, Some(v + 500), Some(w + 20))
    \/ call_df(z)
    \/ compute_bounds(-4000, 0)

Spec == Init /\ [][Next]_vars

\* the piston alone, driven directly
NextBench ==
    \/ pc = "new" /\ \E k \in BenchKwargs : init_piston(k)
    \/ pc \in {"ready", "bench"}
         /\ \E dt \in {Sec, 3 * Sec}, dvdt \in UpdateDvdt : piston_update(dt, dvdt)
    \/ pc \in {"ready", "bench"} /\ \E vol \in UpdateVol : piston_update_vol(vol)

SpecBench == Init /\ [][NextBench]_vars

\* a free float that is trimmed for the surface, logged over minutes
InitCadence == Init /\ flt = float_init([m |-> 65500])

NextCadence ==
    \/ Idle /\ \E P \in CadenceParams : time_step(P)
    \/ time_step_iter
    \/ time_step_return

SpecCadence == InitCadence /\ [][NextCadence]_vars

\* the arguments of the time_step calls of the runs followed to their end:
\* from the surface, unlogged from t0 = 0 or logged from t0 = 4
LoopParams == {P \in RunParams : P.z = None /\ P.log = (P.t0 = 4)}

NextLoop ==
    \/ pc = "new" /\ init_piston([d_max |-> 28])
    \/ Idle /\ \E P \in LoopParams : time_step(P)
    \/ time_step_iter
    \/ time_step_return

\* the loop of time_step is sequential code: where a step of it can be
\* made, it is made
FairLoop ==
    Init /\ [][NextLoop]_vars /\ WF_vars(time_step_iter) /\ WF_vars(time_step_return)

-----------------------------------------------------------------------------
(* Properties *)

\* C1: after a call of piston.update, on a piston with omega_min <= omega_max
\* and phi_min <= phi_max, phi lies in [phi_min, phi_max] and omega is 0 or
\* has its magnitude in [omega_min, omega_max].
C1_PistonClamped ==
    (/\ op = "update"
     /\ piston.omega_min <= piston.omega_max
     /\ piston.phi_min <= piston.phi_max)
    => /\ piston.phi_min <= piston.phi
       /\ piston.phi <= piston.phi_max
       /\ \/ piston.omega = 0
          \/ /\ piston.omega_min <= Abs(piston.omega)
             /\ Abs(piston.omega) <= piston.omega_max

\* an update whose rate was cut to -omega_max and whose angle was held at phi_min
C1_Witness ==
    /\ op = "update"
    /\ piston.omega_min <= piston.omega_max
    /\ piston.phi_min <= piston.phi_max
    /\ piston.omega = - piston.omega_max
    /\ piston.phi = piston.phi_min
    /\ dvdt2omega(piston, arg[2]) < - piston.omega_max

\* C2: after at least one iteration of the loop of time_step, z <= 0.
C2_DepthNotAboveSurface ==
    (run # NoRun /\ run.t > run.t0) => z <= 0

\* an iteration whose Euler step took the float above the surface
C2_Witness ==
    /\ pc = "loop"
    /\ run.t > run.t0
    /\ run.zfree > 0
    /\ z = 0

\* C3: in a controlled run, an iteration that starts with |z - z_target(t)| <=
\* dz_nochattering leaves the piston (dvdt, omega, phi, d, vol) and the
\* float's added volume v as they were.
C3_Deadband ==
    [][(/\ pc = "loop"
        /\ op' = "iter"
        /\ run.usepiston
        /\ Abs(z - At(run.z_target, run.t)) <= run.dz_nochattering)
       => (piston' = piston /\ v' = v)]_vars

\* an iteration inside the deadband, of a run whose piston was commanded before
C3_Witness ==
    /\ op = "iter"
    /\ run.usepiston
    /\ ~ run.applied
    /\ piston.dvdt # 0
    /\ run.dz_nochattering > 0

\* the times of the iterations made so far
IterTimes ==
    [i \in 1..((run.t - run.t0) \div run.dt_step) |->
        run.t0 + (i - 1) * run.dt_step]

\* t is less than dt_step / 4 away from a multiple of dt_store
NearMultiple(t, dt_store, dt_step) ==
    \E k \in ((t \div dt_store) - 1)..((t \div dt_store) + 1) :
        4 * Abs(t - k * dt_store) < dt_step

\* C4: with logging on, the logged times are the times of exactly those
\* iterations that are less than 0.25 * dt_step away from a multiple of
\* dt_store (with dt_store = 60 and dt_step = 1: within 0.25 s of a minute).
C4_LoggingCadence ==
    (run # NoRun /\ run.log /\ run.dt_store # None)
    => log.t = SelectSeq(IterTimes,
                         LAMBDA x : NearMultiple(x, Val(run.dt_store), run.dt_step))

\* a run with dt_store = 60 and dt_step = 1 that logged three samples, the
\* second one 0.2 s before the minute
C4_Witness ==
    /\ pc = "done"
    /\ run.dt_store = Some(60 * Sec)
    /\ run.dt_step = Sec
    /\ log.t = <<-4, 60 * Sec - 4, 120 * Sec - 4>>

\* C5: the piston's displacement and volume are those of its angle, from
\* its construction on: d = phi2d(phi) and vol = phi2vol(phi) = d2vol(d).
C5_AngleDisplacementVolume ==
    piston # NoPiston
    => /\ piston.d = phi2d(piston, piston.phi)
       /\ piston.vol = phi2vol(piston, piston.phi)
       /\ piston.vol = d2vol(piston, piston.d)

\* C7: a piston constructed with neither d_max nor vol_max exits before
\* phi_max is derived and the float is left without a piston; with one of
\* them the constructor returns a piston, which the float gets.
C7_ConstructionFails ==
    op = "init_piston"
    => IF ~ ("d_max" \in DOMAIN arg) /\ ~ ("vol_max" \in DOMAIN arg)
       THEN /\ ret.exit
            /\ pc = "exit"
            /\ piston = NoPiston
            /\ ~ ("phi_max" \in DOMAIN ret.self)
       ELSE /\ ~ ret.exit
            /\ pc = "ready"
            /\ piston = ret.self
            /\ "phi_max" \in DOMAIN piston
            /\ piston.phi_max = d2phi(piston, piston.d_max)

\* a construction that exited although other keywords were given
C7_Witness ==
    /\ op = "init_piston"
    /\ pc = "exit"
    /\ "lead" \in DOMAIN arg
    /\ piston = NoPiston

C9_QueriesDoNotMutate ==
    [][op' \in {"_f", "_df", "compute_bounds"}
       => (z' = z /\ w' = w /\ v' = v /\ piston' = piston)]_vars

\* a force asked for at another added volume and velocity than the float's,
\* of a float that moves and has a piston
C9_Witness ==
    /\ op = "_f"
    /\ arg[2] # None
    /\ Val(arg[2]) # v
    /\ arg[3] # None
    /\ w # 0
    /\ piston # NoPiston

\* the series of a log have the same length
SameLength(lg) == \A k \in DOMAIN lg : Len(lg[k]) = Len(lg.t)

\* lg2 is lg1, or lg1 with one value appended to each series
Appended(lg1, lg2) ==
    \/ lg2 = lg1
    \/ \A k \in DOMAIN lg1 :
          /\ Len(lg2[k]) = Len(lg1[k]) + 1
          /\ SubSeq(lg2[k], 1, Len(lg1[k])) = lg1[k]

\* C10: during a run the five series of the log have the same length, the
\* logged times increase strictly, and an iteration leaves the log as it was
\* or appends one value to every series.
C10_LogAppendOnly ==
    /\ [](log # NoLog
          => /\ DOMAIN log = {"t", "z", "w", "v", "dwdt"}
             /\ SameLength(log)
             /\ \A i \in 1..(Len(log.t) - 1) : log.t[i] < log.t[i + 1])
    /\ [][(pc = "loop" /\ log # NoLog) => Appended(log, log')]_vars

\* a log of a run with three samples
C10_Witness ==
    /\ pc = "done"
    /\ log # NoLog
    /\ Len(log.t) = 3
    /\ Len(log.dwdt) = 3

\* C6: the loop of time_step ends; it makes one iteration for each t = t0,
\* t0 + dt_step, ... below t0 + T, ends at the first t >= t0 + T, and is
\* left in no other way.
C6_LoopTerminates ==
    /\ [](pc = "loop" => <>(pc = "done"))
    /\ [](pc = "done"
          => /\ run.t >= run.t0 + run.T
             /\ run.t - run.dt_step < run.t0 + run.T
             /\ (run.t - run.t0) % run.dt_step = 0)
    /\ [][pc = "loop"
          => \/ /\ run.t < run.t0 + run.T
                /\ pc' = "loop"
                /\ run'.t = run.t + run.dt_step
             \/ /\ run.t >= run.t0 + run.T
                /\ pc' = "done"]_vars

\* a run that ended with the float held at the surface and the piston driven
\* fully in
C6_Witness ==
    /\ pc = "done"
    /\ run.usepiston
    /\ run.applied
    /\ run.zfree > 0
    /\ z = 0
    /\ piston.phi = piston.phi_min
    /\ piston.omega = - piston.omega_max
    /\ run.t >= run.t0 + run.T

\* C11: a call of piston.update(dt, dvdt) leaves omega at dvdt2omega(dvdt),
\* set to 0 when its magnitude is below omega_min and else cut to omega_max
\* in magnitude with its sign kept; dvdt at omega2dvdt of that omega; phi at
\* min(max(phi + omega * dt, phi_min), phi_max); d and vol at phi2d and
\* phi2vol of that phi; and the other attributes as they were.
C11_UpdateOrder ==
    [][op' = "update"
       => LET req  == dvdt2omega(piston, arg'[2])
              om   == IF Abs(req) < piston.omega_min THEN 0
                      ELSE Sign(req) * Min(Abs(req), piston.omega_max)
              phi1 == Min(Max(piston.phi + Quot(om * arg'[1], Sec), piston.phi_min),
                          piston.phi_max)
          IN  piston' = [piston EXCEPT !.omega = om,
                                       !.dvdt = omega2dvdt(piston, om),
                                       !.phi = phi1,
                                       !.d = phi2d(piston, phi1),
                                       !.vol = phi2vol(piston, phi1)]]_vars

\* an update whose rate was cut to -omega_max, that stored another dvdt than
\* the one asked for and moved the angle between its bounds
C11_Witness ==
    /\ op = "update"
    /\ piston.omega = - piston.omega_max
    /\ piston.dvdt # arg[2]
    /\ piston.dvdt = omega2dvdt(piston, piston.omega)
    /\ piston.phi_min < piston.phi
    /\ piston.phi < piston.phi_max

\* C12: an iteration of the loop of time_step takes the force F at the depth,
\* the velocity and the added volume it starts with, then leaves z at
\* min(z + dt_step * w, 0) with the w it started with, w at
\* w + dt_step * F / m with that F, whether or not z was held at the surface,
\* and t at t + dt_step.
C12_EulerOrder ==
    [][op' = "iter"
       => LET F == f_force(flt, At(run.eta, run.t), z, run.Lv, v, w)
          IN  /\ run'.f = F
              /\ z' = Min(z + Quot(run.dt_step * w, Sec), 0)
              /\ w' = w + Quot(run.dt_step * F, Sec * flt.m)
              /\ run'.t = run.t + run.dt_step]_vars

\* an iteration of half a second that held the float at the surface and left
\* it a velocity upwards that the force of the iteration had changed
C12_Witness ==
    /\ op = "iter"
    /\ run.dt_step = Sec \div 2
    /\ run.zfree > 0
    /\ z = 0
    /\ w > 0
    /\ Quot(run.dt_step * run.f, Sec * flt.m) # 0

\* C13: in an iteration that applies control, the piston is updated with the
\* volume rate worked out from the force gradients at the depth the float has
\* in that iteration, the depth at which the force of the iteration is taken.
C13_GradientsAtCurrentDepth ==
    [][(op' = "iter" /\ run'.applied)
       => LET e1 == At(run.eta, run.t)
              F  == f_force(flt, e1, z, run.Lv, v, w)
          IN  piston' = update(piston, run.dt_step,
                               control_u(flt, e1, z, w, v, F, run.t,
                                         [run EXCEPT !.z = z]))]_vars

=============================================================================
